---------------------------- MODULE Spec2Model ----------------------------
(***************************************************************************)
(* Chat-completion orchestration of the Personal Knowledge Agent backend:  *)
(* PersonalKnowledgeAgent.run (normalisation, context fusion, generation,  *)
(* streaming generator), Retriever.query, and the HTTP handler             *)
(* chat_completions with its SSE wrapper stream_chat_response.             *)
(*                                                                         *)
(* Text is a sequence of tokens (strings); concatenation of text is \o.    *)
(* One chat turn is followed from its arrival to its completion.  A step   *)
(* of the model is the code executed between two suspension points         *)
(* (awaits) of the coroutine that handles the turn.                        *)
(*                                                                         *)
(* SpecPipeline follows the construction of an agent step by step          *)
(* (load_documents_from_dir, chunk_documents, embed_documents, Retriever)  *)
(* and then single calls of the agent's and the retriever's methods.       *)
(***************************************************************************)
EXTENDS Naturals, Integers, Sequences, FiniteSets

\* ------------------------------------------------------------------ bounds
\* longest raw message list of a chat turn
MaxMsgs == 3
\* largest number of deltas the generation backend sends on one stream
MaxDeltas == 3

\* most files in the scanned directory
MaxFiles == 3
\* longest text handed to chunk_documents on its own
MaxText == 4
\* largest chunk_size tried for chunk_documents on its own
MaxChunkSize == 3
\* how far the longest indexed text exceeds the context cap
MaxExtra == 2
\* most messages the user sends in the chat UI
MaxTurns == 2
\* most deltas in a reply of the agent service to the chat UI
MaxReply == 2
\* most calls on a Retriever used on its own
MaxOps == 3
\* most requests one serving process handles
MaxRequests == 2
\* most content fragments of a stream of the serving process
MaxFragments == 2

\* --------------------------------------------------------------- constants
\* chunk_size and chunk_overlap defaults of load_and_chunk_documents
ChunkSize == 1000
ChunkOverlap == 200
\* number of characters of the prefix of an injected context string
PrefixLen == 10
\* top_k passed by run to retrieve_context
RunTopK == 3
\* character cap of an injected context string
ContextCap == 1500

VARIABLES
    pc,               \* position of the turn's coroutine
    caller,           \* "http" (chat_completions) or "direct" (agent.run called by code)
    messages,         \* raw message list of the request
    include_context,  \* include_context argument of run
    context_messages, \* context_messages argument of run (None is <<>>)
    stream,           \* agent.stream
    rag_enabled,      \* agent.rag_enabled
    vectorstore,      \* agent.retriever.vectorstore: indexed texts, insertion order
    chat_messages,    \* run's local chat_messages once fused
    queries,          \* log of Retriever.query calls
    llm_calls,        \* log of client.chat.completions.create calls (messages argument)
    llm_error,        \* "none", "open" (create raised), "mid" (stream raised)
    delivered,        \* contents the backend has sent: the deltas of a stream so
                      \* far, or the one message content of a full completion
    index,            \* generator's local index
    fragments,        \* chunks yielded by run's generator
    events,           \* SSE events yielded by stream_chat_response
    run_result,       \* what agent.run returned
    http_response,    \* what the transport layer got from chat_completions
    escaped           \* an exception left the turn's outermost coroutine

VARIABLES
    directory,        \* the directory rag_source_dir names, as the scan finds it
    upc,              \* position of the agent's construction
    loaded,           \* documents returned by load_documents_from_dir
    chunks,           \* documents returned by chunk_documents
    embeddings,       \* vectors returned by DocumentEmbedder.embed_documents
    embed_calls,      \* log of calls of the embedding backend (texts argument)
    unit              \* the last single method call and its outcome

VARIABLES
    history,          \* the chat UI's st.session_state[settings.session_key]
    ui_last           \* the last input the chat UI processed and what came of it

VARIABLES
    retriever,        \* a Retriever object: whether it exists, its vectorstore
    disk,             \* the files under the one faiss path
    saved,            \* the vectorstore that was in memory at the last save
    rlast,            \* the last call on the Retriever class and its outcome
    rops              \* number of calls on the Retriever class so far

VARIABLES
    reqs,             \* the requests of one serving process, each with its agent
    builds            \* number of index constructions the process has executed

\* the variables of the chat UI
ui == <<history, ui_last>>
\* the variables of a Retriever used on its own
rvars == <<retriever, disk, saved, rlast, rops>>
\* the variables of a serving process
svars == <<reqs, builds>>
\* the variables outside chat turns and agent construction
aside == <<ui, rvars, svars>>

\* the variables of the construction and of single method calls
pipe == <<upc, loaded, chunks, embeddings, embed_calls, unit>>

vars == <<pc, caller, messages, include_context, context_messages, stream,
          rag_enabled, vectorstore, chat_messages, queries, llm_calls,
          llm_error, delivered, index, fragments, events, run_result,
          http_response, escaped, directory, pipe, aside>>

\* the variables of a chat turn that the construction leaves alone
turn == <<pc, caller, messages, include_context, context_messages, stream,
          chat_messages, llm_calls, llm_error, delivered, index, fragments,
          events, run_result, http_response, escaped>>

\* ----------------------------------------------------------------- values
Min(a, b) == IF a < b THEN a ELSE b
Abs(a) == IF a < 0 THEN 0 - a ELSE a

\* a message dict; an entry that is not a dict has dict = FALSE
Msg(r, c) == [dict |-> TRUE, role |-> r, content |-> c]
NotADict == [dict |-> FALSE, role |-> "", content |-> <<>>]
\* a normalised chat message
ChatMsg(r, c) == [role |-> r, content |-> c]

U1 == Msg("user", <<"q1">>)
U2 == Msg("user", <<"q2">>)
A1 == Msg("assistant", <<"a1">>)
S1 == Msg("system", <<"s1">>)
T1 == Msg("tool", <<"t1">>)

\* entries pydantic's Message lets through: role is any string
HttpEntries == {U1, U2, A1, S1, T1}
\* entries a direct caller of run can pass
DirectEntries == HttpEntries \cup {NotADict}

SeqsUpTo(S, n) == UNION {[1..k -> S] : k \in 0..n}

\* explicit context messages a direct caller can pass
ExplicitContexts == {<<>>, <<ChatMsg("system", <<"ctx">>)>>}

\* texts of the corpus and the stores an agent can be built with
D1 == <<"d1">>
D2 == <<"d2">>
D3 == <<"d3">>
D4 == <<"d4">>
Stores == {<<D1, D2>>, <<D3, D1, D2, D4>>}
\* no retriever
NoStore == <<>>

\* contents of one delta of the generation backend; <<>> is a delta
\* without content (None or "")
DeltaContents == {<<>>, <<"a">>, <<"b">>}
\* texts a non-streaming completion can carry
CompletionTexts == {<<>>, <<"a">>, <<"a", "b">>, <<"b", "a">>}

NoResult == [kind |-> "none", text |-> <<>>]
TextResult(t) == [kind |-> "text", text |-> t]
GeneratorResult == [kind |-> "generator", text |-> <<>>]
RaisedResult == [kind |-> "raised", text |-> <<>>]

NoResponse == [status |-> 0, streaming |-> FALSE, content |-> <<>>, usage |-> "unset"]

\* ----------------------------------------------------------- vector store
\* the embedding backend, a point on a line for each token
TokenVec(t) ==
    CASE t = "q1" -> 1 [] t = "q2" -> 6
      [] t = "d1" -> 2 [] t = "d2" -> 4 [] t = "d3" -> 7 [] t = "d4" -> 9
      [] OTHER -> 0

\* the sum of the vectors of the tokens of the text
Count(text, t) == Cardinality({i \in 1..Len(text) : text[i] = t})
Embed(text) ==
    TokenVec("q1") * Count(text, "q1") + TokenVec("q2") * Count(text, "q2")
        + TokenVec("d1") * Count(text, "d1") + TokenVec("d2") * Count(text, "d2")
        + TokenVec("d3") * Count(text, "d3") + TokenVec("d4") * Count(text, "d4")

Distance(q, d) == Abs(Embed(q) - Embed(d))

\* position of entry i of the store in the ranking for query q: by distance,
\* ties by insertion order
Rank(store, q, i) ==
    1 + Cardinality({j \in 1..Len(store) :
            \/ Distance(q, store[j]) < Distance(q, store[i])
            \/ Distance(q, store[j]) = Distance(q, store[i]) /\ j < i})

\* FAISS.similarity_search(query_text, k)
similarity_search(store, query_text, k) ==
    LET n == IF k < 0 THEN 0 ELSE Min(k, Len(store))
    IN [r \in 1..n |-> store[CHOOSE i \in 1..Len(store) : Rank(store, query_text, i) = r]]

\* Retriever.query: search_fails says whether similarity_search raises
query(store, query_text, top_k, search_fails) ==
    IF store = NoStore THEN [raised |-> FALSE, docs |-> <<>>]
    ELSE IF search_fails THEN [raised |-> FALSE, docs |-> <<>>]
    ELSE [raised |-> FALSE, docs |-> similarity_search(store, query_text, top_k)]

\* ------------------------------------------------------------------ agent
Take(s, n) == SubSeq(s, 1, Min(n, Len(s)))

\* the context message carrying the whole text of the document
ContextMessage_uncut(page_content) ==
    ChatMsg("system", <<"[CONTEXT] ">> \o page_content)

\* the context message built from one retrieved document
ContextMessage(page_content) ==
    ChatMsg("system", <<"[CONTEXT] ">> \o Take(page_content, ContextCap))

\* retrieve_context without its guard on rag_enabled and the retriever
retrieve_context_unguarded(enabled, store, user_query, top_k, search_fails) ==
    LET r == query(store, user_query, top_k, search_fails)
    IN [raised |-> r.raised, called |-> TRUE, docs |-> r.docs,
        msgs |-> [i \in 1..Len(r.docs) |-> ContextMessage(r.docs[i])]]

\* PersonalKnowledgeAgent.retrieve_context
retrieve_context(enabled, store, user_query, top_k, search_fails) ==
    IF ~enabled \/ store = NoStore THEN [raised |-> FALSE, called |-> FALSE, docs |-> <<>>, msgs |-> <<>>]
    ELSE LET r == query(store, user_query, top_k, search_fails)
         IN [raised |-> r.raised, called |-> TRUE, docs |-> r.docs,
             msgs |-> [i \in 1..Len(r.docs) |-> ContextMessage(r.docs[i])]]

\* every role taken as supported
SupportedRoles_any == {"user", "assistant", "system", "tool", "None"}

\* role in ("user", "assistant", "system")
SupportedRoles == {"user", "assistant", "system"}

\* PersonalKnowledgeAgent._convert_messages; raises on an entry without .get
ConvertRaises(msgs) == \E i \in 1..Len(msgs) : ~msgs[i].dict

RECURSIVE _convert_messages(_)
_convert_messages(msgs) ==
    IF msgs = <<>> THEN <<>>
    ELSE LET msg == Head(msgs)
         IN (IF msg.role \in SupportedRoles
             THEN <<ChatMsg(msg.role, msg.content)>> ELSE <<>>)
            \o _convert_messages(Tail(msgs))

\* the first user message instead of the last
LastUserMessage_first(chat) ==
    LET us == {i \in 1..Len(chat) : chat[i].role = "user"}
    IN IF us = {} THEN 0 ELSE CHOOSE i \in us : \A j \in us : i <= j

\* next((m for m in reversed(chat_messages) if m["role"] == "user"), None):
\* the position of that message, 0 for None
LastUserMessage(chat) ==
    LET us == {i \in 1..Len(chat) : chat[i].role = "user"}
    IN IF us = {} THEN 0 ELSE CHOOSE i \in us : \A j \in us : j <= i

\* the explicit context tested before include_context
FusionPath_explicit_first(chat, ic, ctx, enabled) ==
    IF ctx # <<>> THEN "explicit"
    ELSE IF ic /\ LastUserMessage(chat) # 0 /\ enabled THEN "retrieve" ELSE "none"

\* the context-fusion branch of run taken for these arguments
FusionPath(chat, ic, ctx, enabled) ==
    IF ic THEN (IF LastUserMessage(chat) # 0 /\ enabled THEN "retrieve" ELSE "none")
    ELSE IF ctx # <<>> THEN "explicit" ELSE "none"

\* the context after the conversation
Prepend_after(context_msgs, chat) == chat \o context_msgs

\* chat_messages = context_msgs + chat_messages
Prepend(context_msgs, chat) == context_msgs \o chat

\* the string run returns from its except clause, as one token (the source
\* string carries a leading cross-mark symbol)
Degraded == <<"LLM response generation failed.">>

\* the except clause re-raising
RunExcept_reraise == [kind |-> "raised", text |-> <<>>]

\* run's except clause: the result of run when an exception was raised in its try block
RunExcept == TextResult(Degraded)

\* the content stripped of its first token
NonStreamingResult_stripped(content) ==
    TextResult(IF content = <<>> THEN content ELSE Tail(content))

\* return response.choices[0].message.content
NonStreamingResult(content) == TextResult(content)

\* the JSON body chat_completions answers with
JsonResponse(output) ==
    [status |-> 200, streaming |-> FALSE, content |-> output, usage |-> "null"]

\* the chunk delivered ahead of the chunks yielded before
Yield_ahead(out, chunk) == <<chunk>> \o out

\* yield: the chunk goes to the consumer after everything yielded before
Yield(out, chunk) == Append(out, chunk)

\* uuid4().hex: the n-th value drawn for a response, different at each draw
Uuid(n) == n

\* the content chunk numbering the fragments from one
ContentChunk_one_based(content, idx, id) ==
    [content |-> content, has_content |-> TRUE, index |-> idx + 1,
     finish_reason |-> "null", id |-> id]

\* the chunk dicts yielded by the generator
ContentChunk(content, idx, id) ==
    [content |-> content, has_content |-> TRUE, index |-> idx,
     finish_reason |-> "null", id |-> id]
StopChunk(idx, id) ==
    [content |-> <<>>, has_content |-> FALSE, index |-> idx,
     finish_reason |-> "stop", id |-> id]

\* the events of stream_chat_response
DataEvent(chunk) == [data |-> "json", chunk |-> chunk]
DoneEvent == [data |-> "[DONE]", chunk |-> StopChunk(0, 0)]

\* --------------------------------------------------------------- loader
\* a file of the directory tree in rglob order; parses says whether
\* load_text_file / load_pdf_file returns its text
File(path, ext, parses, text) == [path |-> path, ext |-> ext, parses |-> parses, text |-> text]
Directory(files) == [kind |-> "dir", files |-> files]
MissingDir == [kind |-> "missing", files |-> <<>>]
NotADir == [kind |-> "file", files |-> <<>>]
\* rag_source_dir=None
NoDirectory == [kind |-> "none", files |-> <<>>]

\* the directory holding one text file for each text
DirOf(texts) == Directory([i \in 1..Len(texts) |-> File(i, ".txt", TRUE, texts[i])])

Whitespace == {" ", "\n"}

\* str.strip()
RECURSIVE lstrip(_)
lstrip(text) == IF text # <<>> /\ Head(text) \in Whitespace THEN lstrip(Tail(text)) ELSE text
RECURSIVE rstrip(_)
rstrip(text) ==
    IF text # <<>> /\ text[Len(text)] \in Whitespace
    THEN rstrip(SubSeq(text, 1, Len(text) - 1)) ELSE text
strip(text) == rstrip(lstrip(text))

\* file_path.suffix.lower()
Lower(ext) == CASE ext = ".TXT" -> ".txt" [] ext = ".PDF" -> ".pdf" [] OTHER -> ext

\* allowed_exts = extensions or [".txt", ".md", ".pdf"]
DefaultExtensions == {".txt", ".md", ".pdf"}

\* Document(page_content=content, metadata=metadata)
Document(content, file) ==
    [page_content |-> content,
     metadata |-> [source |-> file.path, extension |-> Lower(file.ext)]]

\* the scan stopping at the first file that cannot be parsed
RECURSIVE ScanFiles_abort(_, _)
RECURSIVE ScanFiles(_, _)
ScanFiles_abort(files, allowed_exts) ==
    IF files = <<>> THEN <<>>
    ELSE LET f == Head(files)
         IN IF Lower(f.ext) \notin allowed_exts THEN ScanFiles_abort(Tail(files), allowed_exts)
            ELSE IF ~f.parses THEN <<>>
            ELSE IF strip(f.text) = <<>> THEN ScanFiles_abort(Tail(files), allowed_exts)
            ELSE <<Document(f.text, f)>> \o ScanFiles_abort(Tail(files), allowed_exts)

\* the for loop of load_documents_from_dir
ScanFiles(files, allowed_exts) ==
    IF files = <<>> THEN <<>>
    ELSE LET f == Head(files)
         IN IF Lower(f.ext) \notin allowed_exts THEN ScanFiles(Tail(files), allowed_exts)
            ELSE IF ~f.parses THEN ScanFiles(Tail(files), allowed_exts)
            ELSE IF strip(f.text) = <<>> THEN ScanFiles(Tail(files), allowed_exts)
            ELSE <<Document(f.text, f)>> \o ScanFiles(Tail(files), allowed_exts)

\* an empty scan returned as an empty list
EmptyScan_returned(dir) == [raised |-> FALSE, docs |-> <<>>]

\* if not documents: raise ValueError
EmptyScan(dir) == [raised |-> TRUE, docs |-> <<>>]

\* load_documents_from_dir
load_documents_from_dir(dir, allowed_exts) ==
    IF dir.kind # "dir" THEN [raised |-> TRUE, docs |-> <<>>]
    ELSE LET documents == ScanFiles(dir.files, allowed_exts)
         IN IF documents = <<>> THEN EmptyScan(dir)
            ELSE [raised |-> FALSE, docs |-> documents]

\* -------------------------------------------------------------- chunker
\* RecursiveCharacterTextSplitter(chunk_size, chunk_overlap, length_function=len)
\* as chunk_documents uses it: default separators, keep_separator=True,
\* strip_whitespace=True
Separators == << <<"\n", "\n">>, <<"\n">>, <<" ">>, <<>> >>

\* first position where sep occurs in text, 0 if none
FirstOcc(text, sep) ==
    LET occ == {i \in 1..(Len(text) - Len(sep) + 1) : SubSeq(text, i, i + Len(sep) - 1) = sep}
    IN IF occ = {} THEN 0 ELSE CHOOSE i \in occ : \A j \in occ : i <= j

\* re.split: the pieces between the occurrences of sep
RECURSIVE re_split(_, _)
re_split(text, sep) ==
    LET i == FirstOcc(text, sep)
    IN IF i = 0 THEN <<text>>
       ELSE <<SubSeq(text, 1, i - 1)>> \o re_split(SubSeq(text, i + Len(sep), Len(text)), sep)

IsNonEmptyText(t) == t # <<>>

\* the split that drops the separators (keep_separator=False)
_split_text_with_regex_dropped(text, sep) ==
    LET raw == IF sep = <<>> THEN [i \in 1..Len(text) |-> <<text[i]>>]
               ELSE re_split(text, sep)
    IN SelectSeq(raw, IsNonEmptyText)

\* _split_text_with_regex with keep_separator=True: each separator stays at
\* the head of the piece that follows it; "" splits into characters
_split_text_with_regex(text, sep) ==
    LET raw == IF sep = <<>> THEN [i \in 1..Len(text) |-> <<text[i]>>]
               ELSE LET p == re_split(text, sep)
                    IN [i \in 1..Len(p) |-> IF i = 1 THEN p[i] ELSE sep \o p[i]]
    IN SelectSeq(raw, IsNonEmptyText)

RECURSIVE Join(_)
Join(parts) == IF parts = <<>> THEN <<>> ELSE Head(parts) \o Join(Tail(parts))
RECURSIVE TotalLen(_)
TotalLen(parts) == IF parts = <<>> THEN 0 ELSE Len(Head(parts)) + TotalLen(Tail(parts))

\* _join_docs: the joined and stripped text, as a list of zero or one chunk
_join_docs(current_doc) ==
    LET text == strip(Join(current_doc)) IN IF text = <<>> THEN <<>> ELSE <<text>>

\* the while loop of _merge_splits dropping leading pieces of current_doc
RECURSIVE DropLeading(_, _, _, _)
DropLeading(current_doc, len, chunk_size, chunk_overlap) ==
    LET total == TotalLen(current_doc)
    IN IF total > chunk_overlap \/ (total + len > chunk_size /\ total > 0)
       THEN DropLeading(Tail(current_doc), len, chunk_size, chunk_overlap)
       ELSE current_doc

\* _merge_splits with separator ""
RECURSIVE _merge_splits(_, _, _, _)
_merge_splits(splits, current_doc, chunk_size, chunk_overlap) ==
    IF splits = <<>> THEN _join_docs(current_doc)
    ELSE LET d == Head(splits)
             flush == TotalLen(current_doc) + Len(d) > chunk_size /\ current_doc # <<>>
         IN (IF flush THEN _join_docs(current_doc) ELSE <<>>)
            \o _merge_splits(Tail(splits),
                  Append(IF flush
                         THEN DropLeading(current_doc, Len(d), chunk_size, chunk_overlap)
                         ELSE current_doc, d),
                  chunk_size, chunk_overlap)

\* the separator _split_text picks: the first one found in the text, "" at last
PickSeparator(text, seps) ==
    LET hit == {i \in 1..Len(seps) : seps[i] = <<>> \/ FirstOcc(text, seps[i]) # 0}
    IN IF hit = {} THEN Len(seps) ELSE CHOOSE i \in hit : \A j \in hit : i <= j

RECURSIVE _split_text(_, _, _, _)
RECURSIVE SplitLoop(_, _, _, _, _)
\* the for loop of _split_text over the splits, good holding _good_splits
SplitLoop(splits, good, new_separators, chunk_size, chunk_overlap) ==
    IF splits = <<>>
    THEN (IF good # <<>> THEN _merge_splits(good, <<>>, chunk_size, chunk_overlap) ELSE <<>>)
    ELSE LET s == Head(splits)
         IN IF Len(s) < chunk_size
            THEN SplitLoop(Tail(splits), Append(good, s), new_separators,
                           chunk_size, chunk_overlap)
            ELSE (IF good # <<>> THEN _merge_splits(good, <<>>, chunk_size, chunk_overlap)
                  ELSE <<>>)
                 \o (IF new_separators = <<>> THEN <<s>>
                     ELSE _split_text(s, new_separators, chunk_size, chunk_overlap))
                 \o SplitLoop(Tail(splits), <<>>, new_separators, chunk_size, chunk_overlap)

_split_text(text, seps, chunk_size, chunk_overlap) ==
    LET k == PickSeparator(text, seps)
        separator == seps[k]
        new_separators == IF separator = <<>> THEN <<>> ELSE SubSeq(seps, k + 1, Len(seps))
    IN SplitLoop(_split_text_with_regex(text, separator), <<>>, new_separators,
                 chunk_size, chunk_overlap)

\* splitter.split_documents([doc]): the chunks of one document with its metadata
split_documents(doc, chunk_size, chunk_overlap) ==
    LET texts == _split_text(doc.page_content, Separators, chunk_size, chunk_overlap)
    IN [i \in 1..Len(texts) |-> [page_content |-> texts[i], metadata |-> doc.metadata]]

\* chunk_documents
RECURSIVE chunk_documents(_, _, _)
chunk_documents(documents, chunk_size, chunk_overlap) ==
    IF documents = <<>> THEN <<>>
    ELSE split_documents(Head(documents), chunk_size, chunk_overlap)
         \o chunk_documents(Tail(documents), chunk_size, chunk_overlap)

\* ------------------------------------------------------------- embedder
\* what the embedding backend does on a call: returns one vector per text
\* ("ok"), one too few ("short"), one too many ("long"), or raises ("raise")
BackendOutcomes == {"ok", "short", "long", "raise"}

\* embedding_model.embed_documents(texts)
BackendVectors(texts, outcome) ==
    LET vs == [i \in 1..Len(texts) |-> Embed(texts[i])]
    IN CASE outcome = "short" -> SubSeq(vs, 1, Len(vs) - 1)
         [] outcome = "long" -> Append(vs, 0)
         [] OTHER -> vs

PageContents(documents) == [i \in 1..Len(documents) |-> documents[i].page_content]

\* DocumentEmbedder.embed_documents; called says whether the backend was invoked
embed_documents(documents, outcome) ==
    IF documents = <<>> THEN [raised |-> FALSE, called |-> FALSE, vectors |-> <<>>]
    ELSE IF outcome = "raise" THEN [raised |-> TRUE, called |-> TRUE, vectors |-> <<>>]
    ELSE [raised |-> FALSE, called |-> TRUE,
          vectors |-> BackendVectors(PageContents(documents), outcome)]

\* Retriever.__init__ as the agent calls it, Retriever(embedding_model, docs,
\* doc_embeddings): embeddings is not None, so FAISS.from_documents embeds
\* the documents itself and indexes their texts
Retriever_init(documents, doc_embeddings, outcome) ==
    IF outcome = "raise" THEN [raised |-> TRUE, called |-> TRUE, store |-> NoStore]
    ELSE [raised |-> FALSE, called |-> TRUE, store |-> PageContents(documents)]

\* PersonalKnowledgeAgent.__init__ as one step
PersonalKnowledgeAgent_init(dir, outcome) ==
    IF dir.kind = "none" THEN [raised |-> FALSE, rag_enabled |-> FALSE, store |-> NoStore]
    ELSE LET l == load_documents_from_dir(dir, DefaultExtensions)
             cs == chunk_documents(l.docs, ChunkSize, ChunkOverlap)
             e == embed_documents(cs, outcome)
             r == Retriever_init(cs, e.vectors, outcome)
         IN IF l.raised \/ e.raised \/ r.raised
            THEN [raised |-> TRUE, rag_enabled |-> FALSE, store |-> NoStore]
            ELSE [raised |-> FALSE, rag_enabled |-> TRUE, store |-> r.store]

\* the data/ directories a serving process can find
HttpDirectories == {DirOf(st) : st \in Stores} \cup {MissingDir, Directory(<<>>)}

NoUnit == [op |-> "none", input |-> <<>>, k |-> 0, size |-> 0, overlap |-> 0,
           raised |-> FALSE, called |-> FALSE, output |-> <<>>]

\* -------------------------------------------------------------- chat UI
\* what the request to the agent service meets: a reply, a connection
\* error, a timeout, an HTTP error status, or a body that breaks off
NetOutcomes == {"ok", "connection", "timeout", "http_error", "broken"}
RequestFailures == {"connection", "timeout", "http_error"}

\* the deltas of a reply of the agent service; <<>> is a delta without content
ReplyDeltas == {<<>>, <<"a">>, <<"b">>}

UiMsg(r, c) == [role |-> r, content |-> c]

\* AgentService.send_chat_history: a dict, or the generator of the data
\* lines of the event stream (lines), which raises at its end when breaks
send_chat_history(chat_history, want_stream, outcome, reply) ==
    IF outcome \in RequestFailures
    THEN [kind |-> "dict", content |-> <<"Request error: ", outcome>>,
          lines |-> <<>>, breaks |-> FALSE]
    ELSE IF want_stream
    THEN [kind |-> "generator", content |-> <<>>, lines |-> reply,
          breaks |-> (outcome = "broken")]
    ELSE IF outcome = "broken"
    THEN [kind |-> "dict", content |-> <<"Unexpected error: ", outcome>>,
          lines |-> <<>>, breaks |-> FALSE]
    ELSE [kind |-> "dict",
          content |-> IF Join(reply) = <<>> THEN <<"No response field found.">>
                      ELSE Join(reply),
          lines |-> <<>>, breaks |-> FALSE]

\* the strings _get_agent_response yields; iterating the dict of a failed
\* request gives its keys, which are not JSON and yield nothing
_get_agent_response(chat_history, want_stream, outcome, reply) ==
    LET r == send_chat_history(chat_history, want_stream, outcome, reply)
    IN IF ~want_stream THEN <<r.content>>
       ELSE IF r.kind = "dict" THEN <<>>
       ELSE SelectSeq(r.lines, IsNonEmptyText)
            \o (IF r.breaks THEN << <<"Error communicating with agent. ", outcome>> >>
                ELSE <<>>)

NoInput == [input |-> <<>>, stream |-> FALSE, outcome |-> "none", warned |-> FALSE]

\* ------------------------------------------------------------ retriever
\* a FAISS vector store: the texts of its docstore and the vector indexed
\* for each, in insertion order; NoIndex is vectorstore = None
NoIndex == [built |-> FALSE, texts |-> <<>>, vectors |-> <<>>]
BuiltIndex(texts, vectors) == [built |-> TRUE, texts |-> texts, vectors |-> vectors]

\* the files of a saved store: the index file and the pickled docstore
NoFiles == [exists |-> FALSE, faiss |-> <<>>, pkl |-> <<>>]

\* FAISS.save_local
save_local(ix) == [exists |-> TRUE, faiss |-> ix.vectors, pkl |-> ix.texts]

\* the load that reads the docstore back to front
load_local_reversed(files) ==
    BuiltIndex([i \in 1..Len(files.pkl) |-> files.pkl[Len(files.pkl) + 1 - i]], files.faiss)

\* FAISS.load_local
load_local(files) == BuiltIndex(files.pkl, files.faiss)

\* position of entry i of the index in the ranking for query q: by distance
\* of the indexed vector to the vector of the query, ties by insertion order
IndexRank(ix, q, i) ==
    1 + Cardinality({j \in 1..Len(ix.vectors) :
            \/ Abs(Embed(q) - ix.vectors[j]) < Abs(Embed(q) - ix.vectors[i])
            \/ Abs(Embed(q) - ix.vectors[j]) = Abs(Embed(q) - ix.vectors[i]) /\ j < i})

\* vectorstore.similarity_search(query_text, k) on a store with its vectors
index_search(ix, q, k) ==
    LET n == IF k < 0 THEN 0 ELSE Min(k, Len(ix.vectors))
    IN [r \in 1..n |-> ix.texts[CHOOSE i \in 1..Len(ix.vectors) : IndexRank(ix, q, i) = r]]

\* Retriever.query on the retriever's vectorstore
Retriever_query(ix, q, k, search_fails) ==
    IF ~ix.built THEN [raised |-> FALSE, docs |-> <<>>]
    ELSE IF search_fails THEN [raised |-> FALSE, docs |-> <<>>]
    ELSE [raised |-> FALSE, docs |-> index_search(ix, q, k)]

\* an optional argument: None, or a value
None == [given |-> FALSE, value |-> <<>>]
Some(v) == [given |-> TRUE, value |-> v]

\* the vectors the embedding backend gives for the texts
BackendEmbeddings(texts) == [i \in 1..Len(texts) |-> Embed(texts[i])]

\* the outcome of a construction that raised
ConstructionError(error, files) ==
    [raised |-> TRUE, error |-> error, vectorstore |-> NoIndex, files |-> files,
     embedded |-> FALSE, wrote |-> FALSE, source |-> "none"]

\* Retriever.__init__: load from an existing faiss_path, else build from the
\* documents, else ValueError. With embeddings the branch taken is
\* FAISS.from_documents, which embeds the documents with the backend; without
\* them it is FAISS.from_embeddings(texts=..., embeddings=None), a call
\* without its text_embeddings argument, which raises TypeError.
Retriever_new(documents, precomputed, faiss_path, files, outcome) ==
    IF faiss_path # "none" /\ files.exists
    THEN IF outcome = "raise" THEN ConstructionError("load", files)
         ELSE [raised |-> FALSE, error |-> "none", vectorstore |-> load_local(files),
               files |-> files, embedded |-> FALSE, wrote |-> FALSE, source |-> "disk"]
    ELSE IF documents.given
    THEN IF ~precomputed.given THEN ConstructionError("TypeError", files)
         ELSE IF outcome = "raise" \/ documents.value = <<>>
         THEN ConstructionError("build", files)
         ELSE LET ix == BuiltIndex(documents.value, BackendEmbeddings(documents.value))
              IN [raised |-> FALSE, error |-> "none", vectorstore |-> ix,
                  files |-> IF faiss_path # "none" THEN save_local(ix) ELSE files,
                  embedded |-> TRUE, wrote |-> faiss_path # "none", source |-> "built"]
    ELSE ConstructionError("ValueError", files)

NoRetriever == [exists |-> FALSE, vectorstore |-> NoIndex]
NoCall == [op |-> "none", documents |-> None, embeddings |-> None, faiss_path |-> "none",
           existed |-> FALSE, raised |-> FALSE, error |-> "none", embedded |-> FALSE,
           wrote |-> FALSE, source |-> "none", input |-> <<>>, k |-> 0, output |-> <<>>]

\* ------------------------------------------------------- serving process
\* a request slot of the process: pc is the position of its handler,
\* store the index of the agent built for it, produced the fragments its
\* generator has yielded, sent the events written to the client, backend
\* the state of the stream of the generation backend, overlapped whether
\* its index was built while another request was being served, and
\* at_disconnect the value of produced when the client went away
NoRequest == [pc |-> "none", stream |-> FALSE, store |-> NoStore, produced |-> 0,
              sent |-> 0, backend |-> "none", overlapped |-> FALSE, at_disconnect |-> 0]

\* --------------------------------------------------------------- behaviour
Init ==
    /\ pc = "idle"
    /\ caller = "none"
    /\ messages = <<>>
    /\ include_context = FALSE
    /\ context_messages = <<>>
    /\ stream = FALSE
    /\ rag_enabled = FALSE
    /\ vectorstore = NoStore
    /\ chat_messages = <<>>
    /\ queries = <<>>
    /\ llm_calls = <<>>
    /\ llm_error = "none"
    /\ delivered = <<>>
    /\ index = 0
    /\ fragments = <<>>
    /\ events = <<>>
    /\ run_result = NoResult
    /\ http_response = NoResponse
    /\ escaped = FALSE
    /\ directory = NoDirectory
    /\ upc = "new"
    /\ loaded = <<>>
    /\ chunks = <<>>
    /\ embeddings = <<>>
    /\ embed_calls = <<>>
    /\ unit = NoUnit
    /\ history = <<>>
    /\ ui_last = NoInput
    /\ retriever = NoRetriever
    /\ disk = NoFiles
    /\ saved = NoIndex
    /\ rlast = NoCall
    /\ rops = 0
    /\ reqs = [r \in 1..MaxRequests |-> NoRequest]
    /\ builds = 0

\* get_agent: a request arrives and the dependency builds its agent with
\* rag_source_dir="data/"
get_agent ==
    /\ pc = "idle"
    /\ \E msgs \in SeqsUpTo(HttpEntries, MaxMsgs), s \in BOOLEAN, ic \in BOOLEAN,
          dir \in HttpDirectories, outcome \in {"ok", "raise"} :
        LET agent == PersonalKnowledgeAgent_init(dir, outcome)
        IN /\ messages' = msgs
           /\ stream' = s
           /\ include_context' = ic
           /\ directory' = dir
           /\ vectorstore' = agent.store
           /\ rag_enabled' = agent.rag_enabled
           /\ IF agent.raised
              THEN \* the dependency raises: the request is answered 500
                   /\ http_response' = [NoResponse EXCEPT !.status = 500]
                   /\ escaped' = TRUE
                   /\ pc' = "done"
              ELSE /\ UNCHANGED <<http_response, escaped>>
                   /\ pc' = "handler"
    /\ caller' = "http"
    /\ UNCHANGED <<context_messages, chat_messages, queries, llm_calls, llm_error,
                   delivered, index, fragments, events, run_result>>
    /\ UNCHANGED <<pipe, aside>>

\* chat_completions up to its call of agent.run
chat_completions ==
    /\ pc = "handler"
    /\ IF messages = <<>>
       THEN /\ http_response' = [NoResponse EXCEPT !.status = 400]
            /\ pc' = "done"
       ELSE IF stream
       THEN /\ http_response' = [NoResponse EXCEPT !.status = 200, !.streaming = TRUE]
            /\ pc' = "run"
       ELSE /\ http_response' = http_response
            /\ pc' = "run"
    /\ UNCHANGED <<caller, messages, include_context, context_messages, stream,
                   rag_enabled, vectorstore, chat_messages, queries, llm_calls,
                   llm_error, delivered, index, fragments, events, run_result, escaped>>
    /\ UNCHANGED <<directory, pipe, aside>>

\* PersonalKnowledgeAgent.__init__ called by other code
AgentInit ==
    /\ pc = "idle"
    /\ \E s \in BOOLEAN, store \in {NoStore, <<D1, D2>>} :
        /\ stream' = s
        /\ rag_enabled' = (store # NoStore)
        /\ vectorstore' = store
    /\ caller' = "direct"
    /\ pc' = "constructed"
    /\ UNCHANGED <<messages, include_context, context_messages, chat_messages,
                   queries, llm_calls, llm_error, delivered, index, fragments,
                   events, run_result, http_response, escaped>>
    /\ UNCHANGED <<directory, pipe, aside>>

\* agent.run(messages, include_context, context_messages) called by other code
CallRun ==
    /\ pc = "constructed"
    /\ \E msgs \in SeqsUpTo(DirectEntries, MaxMsgs), ic \in BOOLEAN,
          ctx \in ExplicitContexts :
        /\ messages' = msgs
        /\ include_context' = ic
        /\ context_messages' = ctx
    /\ pc' = "run"
    /\ UNCHANGED <<caller, stream, rag_enabled, vectorstore, chat_messages, queries,
                   llm_calls, llm_error, delivered, index, fragments, events,
                   run_result, http_response, escaped>>
    /\ UNCHANGED <<directory, pipe, aside>>

\* what the caller of run does with run's result, up to its next suspension
ReturnToCaller(result) ==
    /\ run_result' = result
    /\ IF caller = "http" /\ ~stream
       THEN \* chat_completions: JSONResponse, or HTTPException(500) from its except
            /\ http_response' =
                 IF result.kind = "raised"
                 THEN [NoResponse EXCEPT !.status = 500]
                 ELSE JsonResponse(result.text)
            /\ escaped' = FALSE
            /\ pc' = "done"
       ELSE IF caller = "http"
       THEN \* stream_chat_response: async for chunk in chunks
            /\ http_response' = http_response
            /\ escaped' = (result.kind # "generator")
            /\ pc' = IF result.kind = "generator" THEN "streaming" ELSE "done"
       ELSE \* other code iterates the generator it got
            /\ http_response' = http_response
            /\ escaped' = (result.kind = "raised")
            /\ pc' = IF result.kind = "generator" THEN "streaming" ELSE "done"

\* run from its entry to the await of client.chat.completions.create
run ==
    /\ pc = "run"
    /\ IF ConvertRaises(messages)
       THEN /\ ReturnToCaller(RunExcept)
            /\ UNCHANGED <<chat_messages, queries, llm_calls>>
       ELSE \E search_fails \in BOOLEAN :
            LET chat == _convert_messages(messages)
                path == FusionPath(chat, include_context, context_messages, rag_enabled)
                user_message == chat[LastUserMessage(chat)]
                ctx == retrieve_context(rag_enabled, vectorstore,
                                        user_message.content, RunTopK, search_fails)
            IN /\ (path # "retrieve" => ~search_fails)
               /\ queries' = IF path = "retrieve" /\ ctx.called
                             THEN Append(queries, [query_text |-> user_message.content,
                                                   top_k |-> RunTopK,
                                                   search_failed |-> search_fails,
                                                   raised |-> ctx.raised,
                                                   docs |-> ctx.docs])
                             ELSE queries
               /\ IF path = "retrieve" /\ ctx.raised
                  THEN /\ ReturnToCaller(RunExcept)
                       /\ UNCHANGED <<chat_messages, llm_calls>>
                  ELSE /\ chat_messages' =
                            CASE path = "retrieve" -> Prepend(ctx.msgs, chat)
                              [] path = "explicit" -> Prepend(context_messages, chat)
                              [] OTHER -> chat
                       /\ llm_calls' = Append(llm_calls, chat_messages')
                       /\ pc' = "create"
                       /\ UNCHANGED <<run_result, http_response, escaped>>
    /\ UNCHANGED <<caller, messages, include_context, context_messages, stream,
                   rag_enabled, vectorstore, llm_error, delivered, index, fragments,
                   events>>
    /\ UNCHANGED <<directory, pipe, aside>>

\* the await of create completes; run returns and its caller goes on
create_completes ==
    /\ pc = "create"
    /\ \/ /\ llm_error' = "open"
          /\ delivered' = delivered
          /\ ReturnToCaller(RunExcept)
       \/ /\ ~stream
          /\ llm_error' = llm_error
          /\ \E text \in CompletionTexts :
                /\ delivered' = <<text>>
                /\ ReturnToCaller(NonStreamingResult(text))
       \/ /\ stream
          /\ llm_error' = llm_error
          /\ delivered' = delivered
          /\ ReturnToCaller(GeneratorResult)
    /\ UNCHANGED <<caller, messages, include_context, context_messages, stream,
                   rag_enabled, vectorstore, chat_messages, queries, llm_calls,
                   index, fragments, events>>
    /\ UNCHANGED <<directory, pipe, aside>>

\* the event stream_chat_response yields for a chunk of the generator
Forward(chunk) == IF caller = "http" THEN Yield(events, DataEvent(chunk)) ELSE events

\* one turn of the generator's async for: the next delta, the end of the
\* stream, or an error of the stream
generator_next ==
    /\ pc = "streaming"
    /\ \/ \E content \in DeltaContents :
            /\ Len(delivered) < MaxDeltas
            /\ delivered' = Append(delivered, content)
            /\ IF content # <<>>
               THEN /\ LET id == Uuid(Len(fragments) + 1)
                       IN /\ fragments' = Yield(fragments, ContentChunk(content, index, id))
                          /\ events' = Forward(ContentChunk(content, index, id))
                    /\ index' = index + 1
               ELSE UNCHANGED <<fragments, events, index>>
            /\ UNCHANGED <<pc, llm_error, escaped>>
       \/ /\ LET id == Uuid(Len(fragments) + 1)
             IN /\ fragments' = Yield(fragments, StopChunk(index, id))
                /\ events' = Forward(StopChunk(index, id))
          /\ pc' = "stopped"
          /\ UNCHANGED <<delivered, index, llm_error, escaped>>
       \/ /\ llm_error' = "mid"
          /\ escaped' = TRUE
          /\ pc' = "done"
          /\ UNCHANGED <<delivered, index, fragments, events>>
    /\ UNCHANGED <<caller, messages, include_context, context_messages, stream,
                   rag_enabled, vectorstore, chat_messages, queries, llm_calls,
                   run_result, http_response>>
    /\ UNCHANGED <<directory, pipe, aside>>

\* the generator returns after its stop chunk; stream_chat_response ends
\* the event stream
generator_exhausted ==
    /\ pc = "stopped"
    /\ events' = IF caller = "http" THEN Yield(events, DoneEvent) ELSE events
    /\ pc' = "done"
    /\ UNCHANGED <<caller, messages, include_context, context_messages, stream,
                   rag_enabled, vectorstore, chat_messages, queries, llm_calls,
                   llm_error, delivered, index, fragments, run_result,
                   http_response, escaped>>
    /\ UNCHANGED <<directory, pipe, aside>>

Next ==
    \/ get_agent
    \/ chat_completions
    \/ AgentInit
    \/ CallRun
    \/ run
    \/ create_completes
    \/ generator_next
    \/ generator_exhausted

Spec == Init /\ [][Next]_vars

\* ------------------------------------------------- construction and calls
\* the kinds of file a scanned directory can hold
FileKinds ==
    { File(0, ".txt", TRUE, D1), File(0, ".md", TRUE, D2), File(0, ".TXT", TRUE, D3),
      File(0, ".txt", TRUE, <<" ", "\n">>), File(0, ".pdf", FALSE, <<>>),
      File(0, ".py", TRUE, D4) }

\* the files numbered by their place in the scan
Numbered(files) == [i \in 1..Len(files) |-> [files[i] EXCEPT !.path = i]]

\* what rag_source_dir can name
Directories ==
    {Directory(Numbered(fs)) : fs \in SeqsUpTo(FileKinds, MaxFiles)}
        \cup {MissingDir, NotADir, NoDirectory}

\* PersonalKnowledgeAgent.__init__ up to load_and_chunk_documents
agent_new ==
    /\ upc = "new"
    /\ \E dir \in Directories :
        /\ directory' = dir
        /\ rag_enabled' = (dir.kind # "none")
        /\ upc' = IF dir.kind = "none" THEN "ready" ELSE "loading"
    /\ UNCHANGED <<vectorstore, queries, loaded, chunks, embeddings, embed_calls, unit>>
    /\ UNCHANGED <<turn, aside>>

\* load_and_chunk_documents: load_documents_from_dir(source_dir, extensions)
load ==
    /\ upc = "loading"
    /\ LET l == load_documents_from_dir(directory, DefaultExtensions)
       IN /\ loaded' = l.docs
          /\ upc' = IF l.raised THEN "failed" ELSE "chunking"
    /\ UNCHANGED <<directory, rag_enabled, vectorstore, queries, chunks, embeddings,
                   embed_calls, unit>>
    /\ UNCHANGED <<turn, aside>>

\* load_and_chunk_documents: chunk_documents(docs, chunk_size, chunk_overlap)
chunk ==
    /\ upc = "chunking"
    /\ chunks' = chunk_documents(loaded, ChunkSize, ChunkOverlap)
    /\ upc' = "embedding"
    /\ UNCHANGED <<directory, rag_enabled, vectorstore, queries, loaded, embeddings,
                   embed_calls, unit>>
    /\ UNCHANGED <<turn, aside>>

\* doc_embeddings = self.embedder.embed_documents(docs)
embed ==
    /\ upc = "embedding"
    /\ \E outcome \in BackendOutcomes :
        LET e == embed_documents(chunks, outcome)
        IN /\ embeddings' = e.vectors
           /\ embed_calls' = IF e.called THEN Append(embed_calls, PageContents(chunks))
                              ELSE embed_calls
           /\ upc' = IF e.raised THEN "failed" ELSE "building"
    /\ UNCHANGED <<directory, rag_enabled, vectorstore, queries, loaded, chunks, unit>>
    /\ UNCHANGED <<turn, aside>>

\* self.retriever = Retriever(self.embedder.embedding_model, docs, doc_embeddings)
build ==
    /\ upc = "building"
    /\ \E outcome \in {"ok", "raise"} :
        LET r == Retriever_init(chunks, embeddings, outcome)
        IN /\ embed_calls' = IF r.called THEN Append(embed_calls, PageContents(chunks))
                              ELSE embed_calls
           /\ vectorstore' = r.store
           /\ upc' = IF r.raised THEN "failed" ELSE "ready"
    /\ UNCHANGED <<directory, rag_enabled, queries, loaded, chunks, embeddings, unit>>
    /\ UNCHANGED <<turn, aside>>

\* entries handed to _convert_messages on its own: supported roles, another
\* role, no role key, no content key
ConvertEntries ==
    {U1, A1, S1, T1, Msg("None", <<"n1">>), Msg("user", <<>>)}

\* agent._convert_messages(messages) on an agent built without a source dir
call_convert_messages ==
    /\ upc = "ready"
    /\ directory.kind = "none"
    /\ unit = NoUnit
    /\ \E msgs \in SeqsUpTo(ConvertEntries, MaxMsgs) :
        unit' = [NoUnit EXCEPT !.op = "_convert_messages", !.input = msgs,
                               !.raised = ConvertRaises(msgs),
                               !.output = _convert_messages(msgs)]
    /\ UNCHANGED <<directory, rag_enabled, vectorstore, queries, upc, loaded, chunks,
                   embeddings, embed_calls>>
    /\ UNCHANGED <<turn, aside>>

\* values of top_k tried
TopKs == {0 - 1, 0, 1, 2, 3}
QueryTexts == {<<"q1">>, <<"q2">>}

\* agent.retrieve_context(user_query, top_k)
call_retrieve_context ==
    /\ upc = "ready"
    /\ unit = NoUnit
    /\ \E q \in QueryTexts, k \in TopKs, search_fails \in BOOLEAN :
        LET r == retrieve_context(rag_enabled, vectorstore, q, k, search_fails)
        IN /\ unit' = [NoUnit EXCEPT !.op = "retrieve_context", !.input = q, !.k = k,
                                     !.raised = r.raised, !.called = r.called,
                                     !.output = r.msgs]
           /\ embed_calls' = IF r.called THEN Append(embed_calls, <<q>>) ELSE embed_calls
    /\ UNCHANGED <<directory, rag_enabled, vectorstore, queries, upc, loaded, chunks,
                   embeddings>>
    /\ UNCHANGED <<turn, aside>>

\* agent.retriever.query(query_text, top_k)
call_query ==
    /\ upc = "ready"
    /\ vectorstore # NoStore
    /\ unit = NoUnit
    /\ \E q \in QueryTexts, k \in TopKs, search_fails \in BOOLEAN :
        LET r == query(vectorstore, q, k, search_fails)
        IN /\ unit' = [NoUnit EXCEPT !.op = "query", !.input = q, !.k = k,
                                     !.raised = r.raised, !.called = TRUE,
                                     !.output = r.docs]
    /\ UNCHANGED <<directory, rag_enabled, vectorstore, queries, upc, loaded, chunks,
                   embeddings, embed_calls>>
    /\ UNCHANGED <<turn, aside>>

\* a text of n characters
LongText(n) == [i \in 1..n |-> "x"]
\* stores persisted by other retrievers, whose documents were not chunked
PersistedStores ==
    { <<LongText(n)>> : n \in (ContextCap - 1)..(ContextCap + MaxExtra) }

\* agent.retriever.load_index(path) on an agent built over one text file
load_index ==
    /\ upc = "ready"
    /\ rag_enabled
    /\ directory = DirOf(<<D1>>)
    /\ unit = NoUnit
    /\ \E st \in PersistedStores : vectorstore' = st
    /\ upc' = "reloaded"
    /\ UNCHANGED <<directory, rag_enabled, queries, loaded, chunks, embeddings,
                   embed_calls, unit>>
    /\ UNCHANGED <<turn, aside>>

\* agent.retrieve_context(user_query, top_k) after the index was reloaded
call_retrieve_context_reloaded ==
    /\ upc = "reloaded"
    /\ unit = NoUnit
    /\ \E q \in QueryTexts, k \in TopKs, search_fails \in BOOLEAN :
        LET r == retrieve_context(rag_enabled, vectorstore, q, k, search_fails)
        IN unit' = [NoUnit EXCEPT !.op = "retrieve_context", !.input = q, !.k = k,
                                  !.raised = r.raised, !.called = r.called,
                                  !.output = r.msgs]
    /\ UNCHANGED <<directory, rag_enabled, vectorstore, queries, upc, loaded, chunks,
                   embeddings, embed_calls>>
    /\ UNCHANGED <<turn, aside>>

Chars == {"a", "b", " ", "\n"}

\* chunk_documents([Document(text)], chunk_size, chunk_overlap) called on its
\* own, before any agent is built
call_chunk_documents ==
    /\ upc = "new"
    /\ \E text \in SeqsUpTo(Chars, MaxText), size \in 1..MaxChunkSize :
        \E overlap \in 0..(size - 1) :
            unit' = [NoUnit EXCEPT !.op = "chunk_documents", !.input = text,
                                   !.size = size, !.overlap = overlap,
                                   !.output = PageContents(chunk_documents(
                                        <<Document(text, File(1, ".txt", TRUE, text))>>,
                                        size, overlap))]
    /\ upc' = "called"
    /\ UNCHANGED <<directory, rag_enabled, vectorstore, queries, loaded, chunks,
                   embeddings, embed_calls>>
    /\ UNCHANGED <<turn, aside>>

NextPipeline ==
    \/ agent_new
    \/ load
    \/ chunk
    \/ embed
    \/ build
    \/ call_convert_messages
    \/ call_retrieve_context
    \/ call_query
    \/ load_index
    \/ call_retrieve_context_reloaded
    \/ call_chunk_documents

SpecPipeline == Init /\ [][NextPipeline]_vars

\* ----------------------------------------------------------- chat UI turns
\* what the user can type
UserInputs == {<<>>, <<" ">>, <<"hi">>, <<" ", "yo", " ">>}

\* process_user_input: one submission of the input bar, to its return
process_user_input ==
    /\ Len(SelectSeq(history, LAMBDA m : m.role = "user")) < MaxTurns
    /\ \E raw \in UserInputs, want_stream \in BOOLEAN, outcome \in NetOutcomes,
          reply \in SeqsUpTo(ReplyDeltas, MaxReply) :
        LET user_input == strip(raw)
            with_user == Append(history, UiMsg("user", user_input))
            yielded == _get_agent_response(with_user, want_stream, outcome, reply)
        IN IF user_input = <<>>
           THEN /\ history' = history
                /\ ui_last' = [input |-> user_input, stream |-> want_stream,
                               outcome |-> "none", warned |-> TRUE]
           ELSE IF yielded = <<>>
           THEN \* StopIteration at the first chunk: warning and return
                /\ history' = with_user
                /\ ui_last' = [input |-> user_input, stream |-> want_stream,
                               outcome |-> outcome, warned |-> TRUE]
           ELSE /\ history' = Append(with_user, UiMsg("assistant", Join(yielded)))
                /\ ui_last' = [input |-> user_input, stream |-> want_stream,
                               outcome |-> outcome, warned |-> FALSE]
    /\ UNCHANGED <<rag_enabled, vectorstore, queries, directory, pipe, rvars, svars>>
    /\ UNCHANGED turn

NextChatUI == process_user_input

SpecChatUI == Init /\ [][NextChatUI]_vars

\* ------------------------------------------------------------------ claims
\* the normalised form of a raw message list, stated independently of the
\* code: the entries with a supported role, in order
IsSupported(m) == m.role \in {"system", "user", "assistant"}
Normalized(msgs) ==
    LET kept == SelectSeq(msgs, IsSupported)
    IN [i \in 1..Len(kept) |-> [role |-> kept[i].role, content |-> kept[i].content]]
HasUser(msgs) == \E i \in 1..Len(msgs) : msgs[i].role = "user"
Range(s) == {s[i] : i \in 1..Len(s)}
RECURSIVE Concat(_)
Concat(ss) == IF ss = <<>> THEN <<>> ELSE Head(ss) \o Concat(Tail(ss))
NonEmpty(c) == c # <<>>

\* C1: when run is called with include_context, the normalised messages hold a
\* user message and retrieval is enabled, the backend is handed the retrieved
\* context messages (system role, retriever order) followed by the whole
\* normalised sequence in its order.
C1_ContextPrepended ==
    (llm_calls # <<>> /\ include_context /\ rag_enabled /\ HasUser(Normalized(messages)))
    => /\ Len(llm_calls) = 1
       /\ Len(queries) = 1
       /\ LET docs == queries[1].docs
              sent == llm_calls[1]
          IN /\ Len(sent) = Len(docs) + Len(Normalized(messages))
             /\ \A i \in 1..Len(docs) :
                    /\ sent[i].role = "system"
                    /\ sent[i].content = <<"[CONTEXT] ">> \o docs[i]
             /\ SubSeq(sent, Len(docs) + 1, Len(sent)) = Normalized(messages)

\* two retrieved chunks and one user message give [context1, context2, user]
C1_Witness ==
    /\ include_context /\ messages = <<U1>> /\ Len(llm_calls) = 1
    /\ llm_calls[1] = << [role |-> "system", content |-> <<"[CONTEXT] ", "d1">>],
                         [role |-> "system", content |-> <<"[CONTEXT] ", "d2">>],
                         [role |-> "user", content |-> <<"q1">>] >>

\* C2: at most one context path executes and include_context wins: with
\* include_context the caller's context_messages are never prepended; they
\* are prepended exactly when include_context is unset and they are non-empty.
C2_Precedence ==
    llm_calls # <<>> =>
    LET sent == llm_calls[1]
        explicitUsed == \E i \in 1..Len(sent) : sent[i] \in Range(context_messages)
    IN /\ include_context => ~explicitUsed
       /\ (~include_context /\ context_messages # <<>>)
             => sent = context_messages \o Normalized(messages)
       /\ explicitUsed => queries = <<>>
       /\ ~include_context => queries = <<>>

\* include_context and explicit context both given, retrieval ran
C2_Witness ==
    /\ llm_calls # <<>> /\ include_context /\ context_messages # <<>>
    /\ Len(queries) = 1 /\ Len(llm_calls[1]) > Len(Normalized(messages))

\* C3: with include_context the retrieval query is the content of the last
\* user message of the normalised sequence; without a user message no
\* retrieval call is made.
C3_LastUserQuery ==
    LET norm == Normalized(messages)
    IN /\ Len(queries) <= 1
       /\ queries # <<>> =>
            \E i \in 1..Len(norm) :
                /\ norm[i].role = "user"
                /\ \A j \in (i + 1)..Len(norm) : norm[j].role # "user"
                /\ queries[1].query_text = norm[i].content
       /\ ~HasUser(norm) => queries = <<>>

\* two user messages followed by an assistant message: the second is the query
C3_Witness ==
    /\ messages = <<U1, U2, A1>> /\ Len(queries) = 1
    /\ queries[1].query_text = <<"q2">>

\* C4: a non-streaming request without context inclusion and without
\* explicit context hands the backend exactly the normalised messages and
\* returns exactly the text the backend produced.
C4_PlainCompletion ==
    (pc = "done" /\ ~stream /\ ~include_context /\ context_messages = <<>>
        /\ llm_calls # <<>> /\ llm_error = "none")
    => /\ llm_calls = <<Normalized(messages)>>
       /\ Len(delivered) = 1
       /\ run_result = [kind |-> "text", text |-> delivered[1]]
       /\ caller = "http" =>
            /\ http_response.status = 200
            /\ http_response.content = delivered[1]

\* {messages: [user "q1"], stream: false} answered with the backend's text
C4_Witness ==
    /\ pc = "done" /\ caller = "http" /\ ~stream /\ ~include_context
    /\ messages = <<U1>> /\ llm_calls = << <<[role |-> "user", content |-> <<"q1">>]>> >>
    /\ delivered = << <<"a", "b">> >> /\ http_response.content = <<"a", "b">>

\* C5: a stream of n content deltas is emitted as n content fragments in
\* arrival order followed by exactly one stop fragment without content, the
\* last one; the emitted contents concatenate to the backend's text.
C5_StreamFragments ==
    (run_result.kind = "generator" /\ llm_error = "none") =>
    LET cd == SelectSeq(delivered, NonEmpty)
        n == Len(cd)
    IN /\ \A i \in 1..Min(n, Len(fragments)) :
            /\ fragments[i].has_content
            /\ fragments[i].content = cd[i]
            /\ fragments[i].finish_reason = "null"
       /\ pc = "streaming" => Len(fragments) = n
       /\ pc \in {"stopped", "done"} =>
            /\ Len(fragments) = n + 1
            /\ fragments[n + 1].finish_reason = "stop"
            /\ ~fragments[n + 1].has_content
            /\ Concat([i \in 1..Len(fragments) |-> fragments[i].content])
                 = Concat(delivered)

\* three content deltas gave four fragments
C5_Witness ==
    /\ pc = "done" /\ run_result.kind = "generator" /\ llm_error = "none"
    /\ delivered = << <<"a">>, <<"b">>, <<"a">> >>
    /\ Len(fragments) = 4 /\ fragments[4].finish_reason = "stop"

\* C6: every streaming HTTP response is one data event per fragment of the
\* agent, in order, ended by the [DONE] event, sent once, after the stop
\* fragment, with nothing after it.
C6_EventStream ==
    (caller = "http" /\ http_response.streaming /\ pc = "done") =>
        /\ fragments # <<>>
        /\ fragments[Len(fragments)].finish_reason = "stop"
        /\ events = [i \in 1..Len(fragments) |-> [data |-> "json", chunk |-> fragments[i]]]
                     \o <<DoneEvent>>

\* C7: a failure of the generation call of a non-streaming request is turned
\* by run into the fixed degraded string; the endpoint answers 200 with that
\* string as content and an empty usage field.
C7_DegradedNonStreaming ==
    (pc = "done" /\ ~stream /\ llm_error = "open") =>
        /\ run_result = [kind |-> "text", text |-> <<"LLM response generation failed.">>]
        /\ ~escaped
        /\ caller = "http" =>
             http_response = [status |-> 200, streaming |-> FALSE,
                              content |-> <<"LLM response generation failed.">>,
                              usage |-> "null"]

\* the backend failed on a non-streaming HTTP request
C7_Witness ==
    /\ pc = "done" /\ caller = "http" /\ ~stream /\ llm_error = "open"
    /\ Len(llm_calls) = 1 /\ http_response.status = 200

\* C8: a failure of the generation call of a streaming request, at the
\* opening of the stream or while deltas are consumed, reaches the client as
\* a degraded text inside an event stream that ends with [DONE]; no
\* exception leaves the agent's result or stream_chat_response.
C8_StreamFailureDegraded ==
    (caller = "http" /\ stream /\ llm_error # "none" /\ pc = "done") =>
        /\ ~escaped
        /\ events # <<>>
        /\ events[Len(events)] = DoneEvent
        /\ \E i \in 1..Len(events) : events[i].chunk.content = Degraded

\* C9: failures of validation, normalisation and context fusion leave run as
\* exceptions; only failures of the generation call become the degraded text.
C9_PreconditionErrorsPropagate ==
    pc = "done" =>
        /\ ConvertRaises(messages) => run_result.kind = "raised"
        /\ run_result = [kind |-> "text", text |-> Degraded] => llm_error = "open"

\* C10: when the similarity search fails, Retriever.query raises to its
\* caller instead of returning a result.
C10_QueryPropagates ==
    \A i \in 1..Len(queries) : queries[i].search_failed => queries[i].raised

\* C11: an empty message list is rejected with a hard error at both entry
\* points, a client error from the HTTP handler and a raised error from run,
\* before any retrieval or generation call (requests whose agent could not
\* be constructed aside).
C11_EmptyRejected ==
    (caller # "none" /\ messages = <<>> /\ ~escaped) =>
        /\ queries = <<>>
        /\ llm_calls = <<>>
        /\ pc = "done" =>
            IF caller = "http" THEN http_response.status = 400
            ELSE run_result.kind = "raised"

\* C14: a chat request is answered when the corpus is unusable: with the
\* source directory missing or holding no document, the request still gets
\* the reply of the generation backend.
C14_AnsweredWithoutCorpus ==
    (caller = "http" /\ pc = "done" /\ messages # <<>> /\ ~ConvertRaises(messages)
        /\ directory \in {MissingDir, Directory(<<>>)}) =>
        /\ http_response.status = 200
        /\ llm_calls # <<>>

\* a file the scan must turn into a document: allowed extension, parseable,
\* some character that is not whitespace
Survives(f) ==
    /\ Lower(f.ext) \in DefaultExtensions
    /\ f.parses
    /\ \E i \in 1..Len(f.text) : f.text[i] \notin Whitespace

\* the load of the agent's constructor has returned or raised
LoadDone == directory.kind = "dir" /\ upc \notin {"new", "loading"}

\* C17: load_documents_from_dir returns exactly one document per file that
\* has an allowed extension, parses, and holds non-whitespace text, in scan
\* order; a failing or empty file is skipped and never aborts the scan.
C17_OneDocumentPerFile ==
    LoadDone =>
        LET keep == SelectSeq(directory.files, Survives)
        IN /\ Len(loaded) = Len(keep)
           /\ \A i \in 1..Len(keep) :
                /\ loaded[i].page_content = keep[i].text
                /\ loaded[i].metadata.source = keep[i].path

C17_Witness ==
    /\ upc = "chunking"
    /\ Len(directory.files) = 3
    /\ ~directory.files[1].parses
    /\ ~Survives(directory.files[2])
    /\ directory.files[2].parses
    /\ Len(loaded) = 1
    /\ loaded[1].metadata.source = 3

\* C18: when no file survives the scan the load raises, and the failure is
\* fatal to the construction: nothing is chunked, embedded or indexed and
\* no agent comes into existence.
C18_EmptyCorpusFatal ==
    (LoadDone /\ SelectSeq(directory.files, Survives) = <<>>) =>
        /\ upc = "failed"
        /\ loaded = <<>>
        /\ chunks = <<>>
        /\ embeddings = <<>>
        /\ embed_calls = <<>>
        /\ vectorstore = NoStore

C18_Witness ==
    /\ upc = "failed"
    /\ Len(directory.files) = 2
    /\ directory.files[1].ext = ".py"
    /\ ~directory.files[2].parses
    /\ vectorstore = NoStore

\* C13: with retrieval disabled or no retriever, retrieve_context returns the
\* empty sequence without raising, and neither the embedding backend nor the
\* vector index is invoked.
C13_DisabledRetrieval ==
    (unit.op = "retrieve_context" /\ (~rag_enabled \/ vectorstore = NoStore)) =>
        /\ unit.output = <<>>
        /\ ~unit.raised
        /\ ~unit.called
        /\ embed_calls = <<>>

C13_Witness ==
    /\ unit.op = "retrieve_context"
    /\ ~rag_enabled
    /\ unit.k = 3
    /\ unit.input = <<"q1">>
    /\ unit.output = <<>>

\* C12: _convert_messages returns exactly the input messages whose role is
\* system, user or assistant, in their order, role and content unchanged; a
\* message with another role, or without one, is dropped and raises nothing.
C12_NormalisationFilters ==
    unit.op = "_convert_messages" =>
        /\ ~unit.raised
        /\ unit.output = Normalized(unit.input)

C12_Witness ==
    /\ unit.op = "_convert_messages"
    /\ Len(unit.input) = 3
    /\ unit.input[1].role = "tool"
    /\ unit.input[2] = S1
    /\ unit.input[3].role = "None"
    /\ unit.output = <<ChatMsg("system", <<"s1">>)>>

\* C16: embed_documents returns exactly one vector per document, in order;
\* when the backend returns another number of vectors the call raises and
\* never returns the mismatched list.
C16_OneVectorPerDocument ==
    upc \in {"building", "ready", "reloaded"} =>
        /\ Len(embeddings) = Len(chunks)
        /\ \A i \in 1..Len(chunks) : embeddings[i] = Embed(chunks[i].page_content)

\* C20: Retriever.query never accepts a top_k that is zero or negative, it
\* fails fast; for a positive top_k the result has at most top_k entries.
C20_PositiveTopK ==
    unit.op = "query" =>
        /\ unit.k <= 0 => unit.raised
        /\ unit.k > 0 => Len(unit.output) <= unit.k

\* number of characters of a context string: its "[CONTEXT] " prefix and one
\* for each character of the text behind it
CharLen(content) == PrefixLen + (Len(content) - 1)

\* the documents the index returns for the call recorded in unit
Hits == query(vectorstore, unit.input, unit.k, FALSE).docs

\* every context string of the recorded call is the prefix followed by the
\* first min(len, cap) characters of its hit, and has at most n characters
ContextStrings(n) ==
    (unit.op = "retrieve_context" /\ unit.output # <<>>) =>
        /\ Len(unit.output) = Len(Hits)
        /\ \A i \in 1..Len(unit.output) :
            LET c == unit.output[i].content
                cut == IF Len(Hits[i]) < ContextCap THEN Len(Hits[i]) ELSE ContextCap
            IN /\ Head(c) = "[CONTEXT] "
               /\ Tail(c) = SubSeq(Hits[i], 1, cut)
               /\ CharLen(c) <= n

\* C15 as stated: every context string carries the first min(len, 1500)
\* characters of its hit, a plain cut, and the string injected into the
\* prompt has at most 1500 characters.
C15_ContextBounded == ContextStrings(ContextCap)

\* C15: every context string is "[CONTEXT] " followed by the first
\* min(len, 1500) characters of its hit, a plain cut; the string injected
\* into the prompt has at most 1500 characters plus the length of the prefix.
C15_ContextCut == ContextStrings(ContextCap + PrefixLen)

C15_Witness ==
    /\ unit.op = "retrieve_context"
    /\ upc = "reloaded"
    /\ Len(unit.output) = 1
    /\ Len(Hits[1]) > ContextCap
    /\ Len(unit.output[1].content) = ContextCap + 1

\* chunk c lies in the text at position s
OccursAt(text, c, s) ==
    /\ s >= 1
    /\ s + Len(c) - 1 <= Len(text)
    /\ SubSeq(text, s, s + Len(c) - 1) = c

\* position p of the text lies inside an occurrence of one of the chunks
Covered(text, cs, p) ==
    \E i \in 1..Len(cs) : \E s \in 1..p :
        OccursAt(text, cs[i], s) /\ p < s + Len(cs[i])

\* no chunk of the recorded call is longer than chunk_size
ChunksBounded == \A i \in 1..Len(unit.output) : Len(unit.output[i]) <= unit.size

C25_StableChunkId ==
    \A i, j \in 1..Len(fragments) : fragments[i].id = fragments[j].id

\* C26: the i-th fragment of a streaming response, counted from 0, carries
\* index i, also when the backend sends deltas without content, and the stop
\* fragment carries the number of content fragments.
C26_SequenceIndex ==
    /\ \A i \in 1..Len(fragments) : fragments[i].index = i - 1
    /\ \A i \in 1..Len(fragments) :
        fragments[i].finish_reason = "stop" =>
            fragments[i].index =
                Cardinality({j \in 1..Len(fragments) : fragments[j].has_content})

\* a delta without content between two content deltas, then the stop fragment
C26_Witness ==
    /\ pc = "done"
    /\ delivered = << <<"a">>, <<>>, <<"b">> >>
    /\ Len(fragments) = 3
    /\ fragments[2].index = 1
    /\ fragments[3].finish_reason = "stop"
    /\ fragments[3].index = 2

\* C29: for a request accepted by the chat endpoint the generation backend
\* is never called with an empty message sequence: the fused sequence holds
\* a message or the request is rejected before the call.
C29_NeverEmptyPrompt ==
    (caller = "http" /\ messages # <<>>) =>
        \A i \in 1..Len(llm_calls) : llm_calls[i] # <<>>

\* C30: in the chat UI, when a non-empty input was processed and the request
\* to the agent service failed (connection error, timeout, HTTP error
\* status), an assistant message with the error text follows the user
\* message in the history, in streaming mode as in non-streaming mode, so
\* that the user message does not stay without an assistant message.
C30_ErrorShownInChat ==
    (ui_last.input # <<>> /\ ui_last.outcome \in RequestFailures) =>
        /\ Len(history) >= 2
        /\ history[Len(history) - 1] = UiMsg("user", ui_last.input)
        /\ history[Len(history)].role = "assistant"
        /\ ui_last.outcome \in Range(history[Len(history)].content)

\* ------------------------------------------------- a Retriever on its own
\* the texts of the documents handed to Retriever(...)
RetrieverDocuments == {<<D1>>, <<D1, D2>>, <<D2, D1>>}

\* vectors computed elsewhere for the texts: other than the backend's
OtherEmbeddings(texts) == [i \in 1..Len(texts) |-> 10 - Embed(texts[i])]

\* Retriever(embedding_model, documents, embeddings, faiss_path)
Retriever_construct ==
    /\ rops < MaxOps
    /\ \E documents \in {None} \cup {Some(ds) : ds \in RetrieverDocuments},
          vectors_from \in {"none", "backend", "elsewhere"},
          faiss_path \in {"none", "p"}, outcome \in {"ok", "raise"} :
        /\ (~documents.given => vectors_from = "none")
        /\ LET precomputed ==
                   CASE vectors_from = "none" -> None
                     [] vectors_from = "backend" -> Some(BackendEmbeddings(documents.value))
                     [] OTHER -> Some(OtherEmbeddings(documents.value))
               r == Retriever_new(documents, precomputed, faiss_path, disk, outcome)
           IN /\ retriever' = IF r.raised THEN retriever
                              ELSE [exists |-> TRUE, vectorstore |-> r.vectorstore]
              /\ disk' = r.files
              /\ saved' = IF r.wrote THEN r.vectorstore ELSE saved
              /\ rlast' = [NoCall EXCEPT !.op = "Retriever", !.documents = documents,
                                         !.embeddings = precomputed,
                                         !.faiss_path = faiss_path,
                                         !.existed = disk.exists,
                                         !.raised = r.raised, !.error = r.error,
                                         !.embedded = r.embedded, !.wrote = r.wrote,
                                         !.source = r.source]
    /\ rops' = rops + 1
    /\ UNCHANGED <<rag_enabled, vectorstore, queries, directory, pipe, ui, svars>>
    /\ UNCHANGED turn

\* retriever.save_index(path)
save_index ==
    /\ rops < MaxOps
    /\ retriever.exists
    /\ IF retriever.vectorstore.built
       THEN /\ disk' = save_local(retriever.vectorstore)
            /\ saved' = retriever.vectorstore
       ELSE UNCHANGED <<disk, saved>>
    /\ rlast' = [NoCall EXCEPT !.op = "save_index", !.existed = disk.exists,
                               !.wrote = retriever.vectorstore.built]
    /\ rops' = rops + 1
    /\ UNCHANGED retriever
    /\ UNCHANGED <<rag_enabled, vectorstore, queries, directory, pipe, ui, svars>>
    /\ UNCHANGED turn

\* retriever.load_index(path)
Retriever_load_index ==
    /\ rops < MaxOps
    /\ retriever.exists
    /\ \E outcome \in {"ok", "raise"} :
        LET fails == outcome = "raise" \/ ~disk.exists
        IN /\ retriever' = IF fails THEN retriever
                           ELSE [retriever EXCEPT !.vectorstore = load_local(disk)]
           /\ rlast' = [NoCall EXCEPT !.op = "load_index", !.existed = disk.exists,
                                      !.raised = fails, !.source = "disk"]
    /\ rops' = rops + 1
    /\ UNCHANGED <<disk, saved>>
    /\ UNCHANGED <<rag_enabled, vectorstore, queries, directory, pipe, ui, svars>>
    /\ UNCHANGED turn

\* code holding the retriever clears its vectorstore attribute, the value the
\* attribute has before a store is loaded or built
vectorstore_unset ==
    /\ rops < MaxOps
    /\ retriever.exists
    /\ retriever.vectorstore.built
    /\ retriever' = [retriever EXCEPT !.vectorstore = NoIndex]
    /\ rlast' = [NoCall EXCEPT !.op = "unset"]
    /\ rops' = rops + 1
    /\ UNCHANGED <<disk, saved>>
    /\ UNCHANGED <<rag_enabled, vectorstore, queries, directory, pipe, ui, svars>>
    /\ UNCHANGED turn

\* retriever.query(query_text, top_k)
Retriever_call_query ==
    /\ rops < MaxOps
    /\ retriever.exists
    /\ \E q \in QueryTexts, k \in {1, 2, 3}, search_fails \in BOOLEAN :
        LET r == Retriever_query(retriever.vectorstore, q, k, search_fails)
        IN rlast' = [NoCall EXCEPT !.op = "query", !.input = q, !.k = k,
                                   !.raised = r.raised, !.output = r.docs]
    /\ rops' = rops + 1
    /\ UNCHANGED <<retriever, disk, saved>>
    /\ UNCHANGED <<rag_enabled, vectorstore, queries, directory, pipe, ui, svars>>
    /\ UNCHANGED turn

NextRetriever ==
    \/ Retriever_construct
    \/ save_index
    \/ Retriever_load_index
    \/ vectorstore_unset
    \/ Retriever_call_query

SpecRetriever == Init /\ [][NextRetriever]_vars

\* C21: a query on a Retriever whose vector store has not been built or
\* loaded fails with an error instead of returning a result.
C21_IndexNotReady ==
    (rlast.op = "query" /\ ~retriever.vectorstore.built) => rlast.raised

\* the retriever's store was just read from the files of the faiss path
JustLoaded ==
    /\ ~rlast.raised
    /\ \/ rlast.op = "load_index"
       \/ rlast.op = "Retriever" /\ rlast.source = "disk"

C27_PrecomputedUsed ==
    (rlast.op = "Retriever" /\ ~rlast.raised /\ rlast.source = "built") =>
        /\ rlast.embeddings.given =>
            /\ retriever.vectorstore.vectors = rlast.embeddings.value
            /\ ~rlast.embedded
        /\ rlast.embedded => ~rlast.embeddings.given

\* C28: the Retriever constructor loads from an existing faiss_path and then
\* ignores the documents, embedding and writing nothing; otherwise it builds
\* a store from the documents and saves it when a faiss_path is given; with
\* neither it raises ValueError; after a successful construction the store
\* is initialized.
C28_ConstructorPrecedence ==
    rlast.op = "Retriever" =>
        LET path_exists == rlast.faiss_path # "none" /\ rlast.existed
        IN /\ path_exists =>
                /\ ~rlast.embedded
                /\ ~rlast.wrote
                /\ ~rlast.raised => rlast.source = "disk"
           /\ (~path_exists /\ rlast.documents.given /\ rlast.error # "build") =>
                /\ ~rlast.raised
                /\ rlast.source = "built"
                /\ retriever.vectorstore.texts = rlast.documents.value
                /\ rlast.faiss_path # "none" =>
                    rlast.wrote /\ disk = save_local(retriever.vectorstore)
           /\ (~path_exists /\ ~rlast.documents.given) =>
                rlast.raised /\ rlast.error = "ValueError"
           /\ ~rlast.raised => retriever.vectorstore.built

\* ------------------------------------------- requests of a serving process
\* the request is between its agent's construction and its last event
InService(q) == q.pc \in {"constructed", "create", "streaming", "yielded"}

\* get_agent for request r: the dependency builds a new agent, and with it
\* a new index, from data/
srv_get_agent(r) ==
    /\ reqs[r].pc = "none"
    /\ \E st \in Stores, s \in BOOLEAN :
        LET agent == PersonalKnowledgeAgent_init(DirOf(st), "ok")
        IN reqs' = [reqs EXCEPT ![r] =
                      [NoRequest EXCEPT !.pc = "constructed", !.stream = s,
                                        !.store = agent.store,
                                        !.overlapped =
                                            \E o \in 1..MaxRequests :
                                                o # r /\ InService(reqs[o])]]
    /\ builds' = builds + 1
    /\ UNCHANGED <<rag_enabled, vectorstore, queries, directory, pipe, ui, rvars>>
    /\ UNCHANGED turn

\* chat_completions and run for request r up to the await of create
srv_run(r) ==
    /\ reqs[r].pc = "constructed"
    /\ reqs' = [reqs EXCEPT ![r].pc = "create"]
    /\ UNCHANGED builds
    /\ UNCHANGED <<rag_enabled, vectorstore, queries, directory, pipe, ui, rvars>>
    /\ UNCHANGED turn

\* create returns for request r: the full completion, or the open stream
srv_create_completes(r) ==
    /\ reqs[r].pc = "create"
    /\ reqs' = IF reqs[r].stream
               THEN [reqs EXCEPT ![r].pc = "streaming", ![r].backend = "open"]
               ELSE [reqs EXCEPT ![r].pc = "done"]
    /\ UNCHANGED builds
    /\ UNCHANGED <<rag_enabled, vectorstore, queries, directory, pipe, ui, rvars>>
    /\ UNCHANGED turn

\* the response asks the generator of request r for its next chunk: a
\* content fragment, or the stop fragment at the end of the backend's stream
srv_generator_next(r) ==
    /\ reqs[r].pc = "streaming"
    /\ \/ /\ reqs[r].produced < MaxFragments
          /\ reqs' = [reqs EXCEPT ![r].pc = "yielded",
                                  ![r].produced = reqs[r].produced + 1]
       \/ reqs' = [reqs EXCEPT ![r].pc = "stopping",
                               ![r].produced = reqs[r].produced + 1,
                               ![r].backend = "closed"]
    /\ UNCHANGED builds
    /\ UNCHANGED <<rag_enabled, vectorstore, queries, directory, pipe, ui, rvars>>
    /\ UNCHANGED turn

\* the event of the yielded chunk is written to the client of request r
srv_send(r) ==
    /\ reqs[r].pc \in {"yielded", "stopping"}
    /\ reqs' = [reqs EXCEPT ![r].pc = IF reqs[r].pc = "yielded" THEN "streaming" ELSE "done",
                            ![r].sent = reqs[r].sent + 1]
    /\ UNCHANGED builds
    /\ UNCHANGED <<rag_enabled, vectorstore, queries, directory, pipe, ui, rvars>>
    /\ UNCHANGED turn

\* the client of request r goes away during its stream: the response task
\* is cancelled. Neither the generator nor stream_chat_response closes the
\* backend's stream, so whether it gets closed is up to the finalizers of
\* the client library and the interpreter.
srv_disconnect(r) ==
    /\ reqs[r].pc \in {"streaming", "yielded"}
    /\ \E closed \in BOOLEAN :
        reqs' = [reqs EXCEPT ![r].pc = "disconnected",
                             ![r].at_disconnect = reqs[r].produced,
                             ![r].backend = IF closed THEN "closed" ELSE "open"]
    /\ UNCHANGED builds
    /\ UNCHANGED <<rag_enabled, vectorstore, queries, directory, pipe, ui, rvars>>
    /\ UNCHANGED turn

NextServer ==
    \E r \in 1..MaxRequests :
        \/ srv_get_agent(r)
        \/ srv_run(r)
        \/ srv_create_completes(r)
        \/ srv_generator_next(r)
        \/ srv_send(r)
        \/ srv_disconnect(r)

SpecServer == Init /\ [][NextServer]_vars

\* C23: index construction is a one-time setup per serving process: over
\* any interleaving of requests it is executed at most once, never while a
\* request is being served, and all requests read the same index.
C23_BuiltOnce ==
    /\ builds <= 1
    /\ \A r \in 1..MaxRequests : ~reqs[r].overlapped
    /\ \A r, o \in 1..MaxRequests :
        (reqs[r].pc # "none" /\ reqs[o].pc # "none") => reqs[r].store = reqs[o].store

\* C24: streaming is demand-driven and cancelable: a fragment is produced
\* only when the consumer asks for the next one, after the client has gone
\* away no further fragment is produced or sent, and the stream of the
\* generation backend is released.
C24_CancelableStream ==
    \A r \in 1..MaxRequests :
        /\ reqs[r].produced <= reqs[r].sent + 1
        /\ reqs[r].pc = "disconnected" =>
            /\ reqs[r].produced = reqs[r].at_disconnect
            /\ reqs[r].backend = "closed"

=============================================================================
